---- MODULE Spec2Model ----
(***************************************************************************)
(* BGMW precomputation tables of rust-kzg (kzg/src/msm/bgmw.rs): table     *)
(* construction, sequential and parallel multi-scalar multiplication, and  *)
(* the binary table format, with the batch reader of kzg/src/io_utils.rs.  *)
(*                                                                         *)
(* Group elements are the integers modulo GroupOrder under addition; the   *)
(* affine, XYZZ and Jacobian forms of a point are one abstract element.    *)
(* Vectors are 1-based here and 0-based in the source: source index k is   *)
(* index k + 1 below.                                                      *)
(***************************************************************************)
EXTENDS Integers, Sequences, FiniteSets, TLC

VARIABLES
    pc,             \* position of the calling code
    inPoints,       \* the point list handed to BgmwTable::new
    table,          \* the BgmwTable under use (NoTable before construction)
    scalars,        \* the scalar list handed to multiply_*
    seqOut,         \* outcome of multiply_sequential
    file,           \* bytes behind the writer / reader
    compressed,     \* the point encoding flag given to write_to_writer
    damage,         \* what happened to the file after the write
    readCompressed, \* the point encoding flag given to read_from_reader
    readOut         \* outcome of read_from_reader

ioVars == <<file, compressed, damage, readCompressed, readOut>>

\* The state of one multiply_parallel call
VARIABLES
    ncpus,      \* pool.max_count()
    grid,       \* the tile descriptors
    counter,    \* the atomic work counter
    n_workers,  \* number of workers launched
    spawned,    \* workers handed to the pool so far
    wpc,        \* position of each worker
    work,       \* the tile index each worker holds
    wBuckets,   \* the bucket arrays
    results,    \* the partial-result slots (Uninit until written)
    chan,       \* the mpsc channel, oldest message first
    nrecv,      \* messages the coordinator has received
    ret,        \* the coordinator's running sum
    parOut,     \* outcome of multiply_parallel
    claimedBy,  \* history: the workers that claimed each tile index
    processed,  \* history: how often each tile went through p1_tile_bgmw
    accessLog,  \* history: <<object kind, object index, thread, mode>>
    recvLog     \* history: the worker indices in the order received

parVars == <<ncpus, grid, counter, n_workers, spawned, wpc, work, wBuckets, results,
             chan, nrecv, ret, parOut, claimedBy, processed, accessLog, recvLog>>

\* One call of a kernel (p1_tile_bgmw, integrate_buckets) on its own
VARIABLES
    kernel      \* the arguments and the outcome of the call

\* The state of one par_io_batch_reader call
VARIABLES
    rpc,        \* position of the calling thread
    rdCpus,     \* num_cpus::get()
    rdN,        \* n, the number of records asked for
    stream,     \* the complete records the stream holds
    rthread,    \* state of the read thread
    rnext,      \* the index the read thread reads next
    bytesCh,    \* the bytes channel: <<i, bytes>>, oldest first
    parsedCh,   \* the parsed channel: <<i, parsed>>, oldest first
    errCh,      \* the error channel (capacity 1)
    rworker,    \* state of each decode worker
    held,       \* the <<i, bytes>> a decode worker has received
    output,     \* the output vector
    nparsed,    \* results the calling thread has received
    rdOut       \* outcome of par_io_batch_reader

rdVars == <<rpc, rdCpus, rdN, stream, rthread, rnext, bytesCh, parsedCh, errCh,
            rworker, held, output, nparsed, rdOut>>

auxVars == <<kernel, rdVars>>

vars == <<pc, inPoints, table, scalars, seqOut, ioVars, parVars, auxVars>>

-----------------------------------------------------------------------------
(* Bounds of the model *)

\* Scalar bit length.  The source fixes it at 255 (const NBITS, bgmw.rs:45,
\* and the literal 255 of multiply_sequential and of the grid); the model is
\* parametric in it and is checked at a small length.
NBITS == 5

\* Order of the (cyclic) group the points live in.
GroupOrder == 11

\* Most records a stream holds, and most a batch read asks for.
MaxRecords == 2

\* Longest point list handed to BgmwTable::new.
MaxPoints == 3

\* Point count above which the selector may tile (32 at bgmw.rs:324).
ParallelMinPoints == 1

\* Window widths pippenger_window_size may return (1 <= width <= NBITS).
Widths == {1, 2, 3, NBITS}

\* Column counts nx a tiling may have.
TileColumns == {1, 2}

\* Worker counts of the thread pool (pool.max_count()).
CpuCounts == {1, 2, 3}

\* Group elements used as input points (0 is the identity).
PointValues == {0, 1, 3}

\* Scalars used in lists of three or more; shorter lists range over all scalars.
ScalarValues == {0, 10, 2 ^ NBITS - 1}

-----------------------------------------------------------------------------
(* Group primitives (the arithmetic layer) *)

Identity == 0

Add(a, b) == (a + b) % GroupOrder

Neg(a) == (GroupOrder - a) % GroupOrder

\* G1Mul::mul by a scalar field element k
Mul(a, k) == (a * (k % GroupOrder)) % GroupOrder

\* type_is_zero: 1 for the identity, 0 otherwise
type_is_zero(a) == IF a = Identity THEN 1 ELSE 0

\* p1_dadd: out += p
p1_dadd(out, p) == Add(out, p)

\* p1_dadd_affine: out += p, or out -= p when subtract is set
p1_dadd_affine(out, p, subtract) == IF subtract THEN Add(out, Neg(p)) ELSE Add(out, p)

-----------------------------------------------------------------------------
(* Outcomes of calls that may panic *)

Ok(v) == [ok |-> TRUE, val |-> v]

Panic == [ok |-> FALSE, val |-> 0]

-----------------------------------------------------------------------------
(* pippenger_utils *)

is_zero(x) == IF x = 0 THEN 1 ELSE 0

\* The bits of scalar from bit off upwards; the caller masks the value.
get_wval_limb(scalar, off, bits) == (scalar \div (2 ^ off)) % (2 ^ bits)

\* booth_encode on u64: mask = 0 - (wval >> sz); ((wval + 1) >> 1 ^ mask) - mask.
\* The result is kept modulo 2^(sz+1): booth_decode reads bits 0..sz only.
booth_encode(wval, sz) ==
    LET half == (wval + 1) \div 2
    IN  IF wval \div (2 ^ sz) = 0
        THEN half % (2 ^ (sz + 1))
        ELSE (2 ^ (sz + 1) - (half % (2 ^ (sz + 1)))) % (2 ^ (sz + 1))

\* The bucket (source index) booth_decode touches, or -1 for a zero digit.
booth_bucket(booth_idx, wbits) == (booth_idx % (2 ^ wbits)) - 1

\* booth_decode: add the point to, or subtract it from, buckets[idx - 1].
booth_decode(buckets, booth_idx, wbits, point) ==
    LET booth_sign == (booth_idx \div (2 ^ wbits)) % 2 # 0
        idx == booth_idx % (2 ^ wbits)
    IN  IF idx = 0 THEN buckets
        ELSE [buckets EXCEPT ![idx] = p1_dadd_affine(@, point, booth_sign)]

-----------------------------------------------------------------------------
(* Windows *)

Sync(w) == [tag |-> "Sync", nx |-> 0, ny |-> 0, wnd |-> w]

Parallel(nx, ny, w) == [tag |-> "Parallel", nx |-> nx, ny |-> ny, wnd |-> w]

\* impl PartialEq for BgmwWindow
WindowEq(a, b) ==
    IF a.tag = "Sync" /\ b.tag = "Sync" THEN a.wnd = b.wnd ELSE FALSE

\* A row count without the extra row of an exact division (NBITS a multiple of
\* the width), which leaves the carry of the top window without a table row
TableDimensionsWithoutCarryRow(window) ==
    IF window.tag = "Parallel" THEN <<window.wnd, window.ny>>
    ELSE <<window.wnd, (NBITS + window.wnd - 1) \div window.wnd>>

\* A row count with the extra row when the division leaves a remainder
TableDimensionsExtraRowOnRemainder(window) ==
    IF window.tag = "Parallel" THEN <<window.wnd, window.ny>>
    ELSE <<window.wnd,
           (NBITS + window.wnd - 1) \div window.wnd + (1 - is_zero(NBITS % window.wnd))>>

\* get_table_dimensions: (window_width, h)
get_table_dimensions(window) ==
    IF window.tag = "Parallel" THEN <<window.wnd, window.ny>>
    ELSE <<window.wnd,
           (NBITS + window.wnd - 1) \div window.wnd + is_zero(NBITS % window.wnd)>>

\* A width read off either variant, with no panic for a tiling window
WindowSizeOfAnyVariant(window) == Ok(window.wnd)

\* get_sequential_window_size: the width, or a panic for a tiling window
get_sequential_window_size(window) ==
    IF window.tag = "Sync" THEN Ok(window.wnd) ELSE Panic

\* breakdown: the tiling of the selector, nx columns of width-wnd rows
breakdown(nx, wnd) == <<nx, NBITS \div wnd + 1, wnd>>

\* BgmwTable::window, with the heuristics' results (default_window, and the
\* tiling nx, wnd of breakdown) as inputs
window(npoints, cpus, default_window, nx, wnd) ==
    IF npoints > ParallelMinPoints /\ cpus > 2
    THEN LET b == breakdown(nx, wnd) IN Parallel(b[1], b[2], b[3])
    ELSE Sync(default_window)

-----------------------------------------------------------------------------
(* BgmwTable::new *)

NoTable == [window |-> Sync(0), points |-> <<>>, numpoints |-> 0, h |-> 0]

\* tmp_point after j rounds of tmp_point = tmp_point.mul(&q)
RECURSIVE ColumnEntry(_, _, _)
ColumnEntry(p, q, j) == IF j = 0 THEN p ELSE Mul(ColumnEntry(p, q, j - 1), q)

\* A table filled column by column: entry i * h + j for point i and row j
TableNewColumnMajor(points, wnd) ==
    LET dims == get_table_dimensions(wnd)
        window_width == dims[1]
        h == dims[2]
        n == Len(points)
        q == 2 ^ window_width
    IN  [window |-> wnd,
         points |-> [idx \in 1 .. n * h |->
                        ColumnEntry(points[((idx - 1) \div h) + 1], q, (idx - 1) % h)],
         numpoints |-> n,
         h |-> h]

\* BgmwTable::new, given the window the selector chose
BgmwTableNew(points, wnd) ==
    LET dims == get_table_dimensions(wnd)
        window_width == dims[1]
        h == dims[2]
        n == Len(points)
        q == 2 ^ window_width
    IN  [window |-> wnd,
         points |-> [idx \in 1 .. n * h |->
                        ColumnEntry(points[((idx - 1) % n) + 1], q, (idx - 1) \div n)],
         numpoints |-> n,
         h |-> h]

-----------------------------------------------------------------------------
(* p1_tile_bgmw and integrate_buckets *)

\* The Booth-encoded window value of one scalar (bgmw.rs:565-582)
TileWval(scalar, bit0, wbits, cbits) ==
    LET wmask == 2 ^ (wbits + 1) - 1
        z == is_zero(bit0)
        b0 == bit0 - (1 - z)
        wb == wbits + (1 - z)
    IN  booth_encode((get_wval_limb(scalar, b0, wb) * (2 ^ z)) % (wmask + 1), cbits)

\* booth_decode with the bounds check of the bucket index
DecodeChecked(buckets, booth_idx, cbits, point) ==
    IF booth_bucket(booth_idx, cbits) >= Len(buckets) THEN Panic
    ELSE Ok(booth_decode(buckets, booth_idx, cbits, point))

\* The loop of bgmw.rs:598-618 from index i on, then the last point (620-622)
RECURSIVE TileLoop(_, _, _, _, _, _, _, _, _)
TileLoop(points, scalars_, buckets, i, wnxt, bit0, wbits, cbits, npoints) ==
    IF i >= npoints
    THEN IF npoints >= Len(points) THEN Panic
         ELSE DecodeChecked(buckets, wnxt, cbits, points[npoints + 1])
    ELSE IF i >= Len(points) THEN Panic
         ELSE LET d == DecodeChecked(buckets, wnxt, cbits, points[i + 1])
              IN  IF ~d.ok THEN Panic
                  ELSE TileLoop(points, scalars_, d.val, i + 1,
                                TileWval(scalars_[i + 2], bit0, wbits, cbits),
                                bit0, wbits, cbits, npoints)

\* A tile loop that decodes the first point with the digit of the second scalar
TileShiftedDigits(points, scalars_, buckets, bit0, wbits, cbits) ==
    IF Len(scalars_) < 2 \/ Len(points) < 1 THEN Panic
    ELSE LET wnxt == TileWval(scalars_[2], bit0, wbits, cbits)
             d == DecodeChecked(buckets, wnxt, cbits, points[1])
         IN  IF ~d.ok THEN Panic
             ELSE TileLoop(points, scalars_, d.val, 1, wnxt, bit0, wbits, cbits,
                           Len(scalars_) - 1)

p1_tile_bgmw(points, scalars_, buckets, bit0, wbits, cbits) ==
    IF Len(scalars_) < 1 \/ Len(points) < 1 THEN Panic
    ELSE IF Len(scalars_) < 2 THEN Panic
    ELSE LET wval == TileWval(scalars_[1], bit0, wbits, cbits)
             wnxt == TileWval(scalars_[2], bit0, wbits, cbits)
             d == DecodeChecked(buckets, wval, cbits, points[1])
         IN  IF ~d.ok THEN Panic
             ELSE TileLoop(points, scalars_, d.val, 1, wnxt, bit0, wbits, cbits,
                           Len(scalars_) - 1)

\* The positions of the scalar slice p1_tile_bgmw indexes (0-based), up to its
\* return or its panic: scalars[0] (bgmw.rs:559), scalars[1] (584), and
\* scalars[i + 1] in round i of the loop (603), which precedes points[i] (612)
ScalarsRead(npts, nscal) ==
    IF nscal = 0 \/ npts = 0 THEN {0}
    ELSE {0, 1} \cup {i + 1 : i \in 1 .. (IF nscal - 2 < npts THEN nscal - 2 ELSE npts)}

\* The loop of integrate_buckets from source index n down to 0
RECURSIVE IntegrateLoop(_, _, _, _)
IntegrateLoop(buckets, n, ret_, acc) ==
    IF n = 0 THEN ret_
    ELSE LET acc1 == IF type_is_zero(buckets[n]) = 0
                     THEN p1_dadd(acc, buckets[n]) ELSE acc
         IN  IntegrateLoop(buckets, n - 1, p1_dadd(ret_, acc1), acc1)

\* An integration whose running total starts empty, not with the top bucket
IntegrateFromEmptyTotal(buckets, wbits) ==
    LET n == 2 ^ wbits - 1
    IN  IF n + 1 > Len(buckets) THEN Panic
        ELSE Ok(IntegrateLoop(buckets, n, Identity, buckets[n + 1]))

integrate_buckets(buckets, wbits) ==
    LET n == 2 ^ wbits - 1
    IN  IF n + 1 > Len(buckets) THEN Panic
        ELSE Ok(IntegrateLoop(buckets, n, buckets[n + 1], buckets[n + 1]))

EmptyBuckets(wnd) == [k \in 1 .. 2 ^ (wnd - 1) |-> Identity]

-----------------------------------------------------------------------------
(* multiply_sequential *)

\* Row q_idx of the matrix: points[q_idx * numpoints .. (q_idx + 1) * numpoints]
TableRow(t, q_idx) ==
    IF q_idx < 0 \/ (q_idx + 1) * t.numpoints > Len(t.points) THEN Panic
    ELSE Ok(SubSeq(t.points, q_idx * t.numpoints + 1, (q_idx + 1) * t.numpoints))

\* The p1_tile_bgmw calls of multiply_sequential in order: those of the loop
\* (bgmw.rs:164-182), then the call after it (bgmw.rs:183-190).  Each is
\* [row, bit0, wbits, cbits]; q_idx is the loop's row index at that point.
RECURSIVE SeqCalls(_, _, _, _, _)
SeqCalls(wnd, wbits, cbits, bit0_, q_idx_) ==
    LET bit0 == bit0_ - wbits
        q_idx == q_idx_ - 1
    IN  IF bit0 <= 0
        THEN <<[row |-> 0, bit0 |-> bit0, wbits |-> wbits, cbits |-> cbits,
                q_idx |-> q_idx]>>
        ELSE <<[row |-> q_idx, bit0 |-> bit0, wbits |-> wbits, cbits |-> cbits,
                q_idx |-> q_idx]>>
             \o SeqCalls(wnd, wnd, wnd, bit0, q_idx)

\* The calls multiply_sequential makes on a Sync table of width wnd
SeqCallsOfWidth(wnd) ==
    SeqCalls(wnd, NBITS % wnd, (NBITS % wnd) + 1, NBITS,
             get_table_dimensions(Sync(wnd))[2])

\* The calls made one after the other on the same buckets
RECURSIVE SeqTiles(_, _, _, _)
SeqTiles(t, scalars_, calls, buckets) ==
    IF calls = <<>> THEN Ok(buckets)
    ELSE LET c == Head(calls)
             row == TableRow(t, c.row)
             tile == IF row.ok /\ c.bit0 >= 0
                     THEN p1_tile_bgmw(row.val, scalars_, buckets, c.bit0, c.wbits,
                                       c.cbits)
                     ELSE Panic
         IN  IF ~tile.ok THEN Panic ELSE SeqTiles(t, scalars_, Tail(calls), tile.val)

multiply_sequential(t, scalars_) ==
    LET w == get_sequential_window_size(t.window)
    IN  IF ~w.ok \/ w.val < 1 THEN Panic
        ELSE LET calls == SeqCalls(w.val, NBITS % w.val, (NBITS % w.val) + 1, NBITS,
                                   t.h)
                 last == calls[Len(calls)]
                 tiles == SeqTiles(t, scalars_, calls, EmptyBuckets(w.val))
             IN  IF ~tiles.ok \/ last.wbits < 1 THEN Panic
                 ELSE integrate_buckets(tiles.val, last.wbits - 1)

\* The reference: the naive sum of scalar_i * point_i
RECURSIVE NaiveSum(_, _)
NaiveSum(points, scalars_) ==
    IF points = <<>> THEN Identity
    ELSE Add(Mul(Head(points), Head(scalars_)), NaiveSum(Tail(points), Tail(scalars_)))

-----------------------------------------------------------------------------
(* Inputs *)

PointLists(maxn) == UNION {[1 .. n -> PointValues] : n \in 0 .. maxn}

ScalarLists(n) ==
    IF n <= 2 THEN [1 .. n -> 0 .. 2 ^ NBITS - 1] ELSE [1 .. n -> ScalarValues]

-----------------------------------------------------------------------------
(* Point encodings of the arithmetic layer: to_bytes / from_bytes (48 bytes) *)
(* and serialize / deserialize (96 bytes).  Byte 1 carries the flags (128:  *)
(* compressed, 64: infinity), the x coordinate ends at byte 48 and the y    *)
(* coordinate at byte 96; the decoders reject what is not a group element.  *)

CompressedBytes == 48

UncompressedBytes == 96

\* The y coordinate of the point with x coordinate v
YOf(v) == (v * v + 1) % 251

to_bytes(p) ==
    [k \in 1 .. CompressedBytes |->
        IF k = 1 THEN (IF p = Identity THEN 192 ELSE 128)
        ELSE IF k = CompressedBytes THEN p ELSE 0]

serialize(p) ==
    [k \in 1 .. UncompressedBytes |->
        IF k = 1 THEN (IF p = Identity THEN 64 ELSE 0)
        ELSE IF k = CompressedBytes THEN p
        ELSE IF k = UncompressedBytes THEN (IF p = Identity THEN 0 ELSE YOf(p))
        ELSE 0]

OtherBytesZero(bytes, keep) ==
    \A k \in 2 .. Len(bytes) : k \in keep \/ bytes[k] = 0

from_bytes(bytes) ==
    IF bytes[1] = 192 /\ OtherBytesZero(bytes, {}) THEN Ok(Identity)
    ELSE IF /\ bytes[1] = 128
            /\ OtherBytesZero(bytes, {CompressedBytes})
            /\ bytes[CompressedBytes] \in 1 .. GroupOrder - 1
         THEN Ok(bytes[CompressedBytes])
         ELSE Panic

deserialize(bytes) ==
    IF bytes[1] = 64 /\ OtherBytesZero(bytes, {}) THEN Ok(Identity)
    ELSE IF /\ bytes[1] = 0
            /\ OtherBytesZero(bytes, {CompressedBytes, UncompressedBytes})
            /\ bytes[CompressedBytes] \in 1 .. GroupOrder - 1
            /\ bytes[UncompressedBytes] = YOf(bytes[CompressedBytes])
         THEN Ok(bytes[CompressedBytes])
         ELSE Panic

\* The G2 encodings: g2 to_bytes / from_bytes (96 bytes) and serialize /
\* deserialize (192 bytes), laid out like the G1 ones at twice the width
G2CompressedBytes == 96

G2UncompressedBytes == 192

g2_to_bytes(p) ==
    [k \in 1 .. G2CompressedBytes |->
        IF k = 1 THEN (IF p = Identity THEN 192 ELSE 128)
        ELSE IF k = G2CompressedBytes THEN p ELSE 0]

g2_serialize(p) ==
    [k \in 1 .. G2UncompressedBytes |->
        IF k = 1 THEN (IF p = Identity THEN 64 ELSE 0)
        ELSE IF k = G2CompressedBytes THEN p
        ELSE IF k = G2UncompressedBytes THEN (IF p = Identity THEN 0 ELSE YOf(p))
        ELSE 0]

g2_from_bytes(bytes) ==
    IF bytes[1] = 192 /\ OtherBytesZero(bytes, {}) THEN Ok(Identity)
    ELSE IF /\ bytes[1] = 128
            /\ OtherBytesZero(bytes, {G2CompressedBytes})
            /\ bytes[G2CompressedBytes] \in 1 .. GroupOrder - 1
         THEN Ok(bytes[G2CompressedBytes])
         ELSE Panic

g2_deserialize(bytes) ==
    IF bytes[1] = 64 /\ OtherBytesZero(bytes, {}) THEN Ok(Identity)
    ELSE IF /\ bytes[1] = 0
            /\ OtherBytesZero(bytes, {G2CompressedBytes, G2UncompressedBytes})
            /\ bytes[G2CompressedBytes] \in 1 .. GroupOrder - 1
            /\ bytes[G2UncompressedBytes] = YOf(bytes[G2CompressedBytes])
         THEN Ok(bytes[G2CompressedBytes])
         ELSE Panic

-----------------------------------------------------------------------------
(* Writing a table *)

\* usize::to_le_bytes
RECURSIVE to_le_bytes(_, _)
to_le_bytes(value, nbytes) ==
    IF nbytes = 0 THEN <<>>
    ELSE <<value % 256>> \o to_le_bytes(value \div 256, nbytes - 1)

write_usize(value) == to_le_bytes(value, 8)

write_window(t) ==
    IF t.window.tag = "Sync"
    THEN write_usize(1) \o write_usize(t.window.wnd)
    ELSE write_usize(3) \o write_usize(t.window.nx) \o write_usize(t.window.ny)
         \o write_usize(t.window.wnd)

RECURSIVE write_points(_, _)
write_points(pts, compressed_) ==
    IF pts = <<>> THEN <<>>
    ELSE (IF compressed_ THEN to_bytes(Head(pts)) ELSE serialize(Head(pts)))
         \o write_points(Tail(pts), compressed_)

\* A writer that puts the row count before the point count
WriteToWriterRowsFirst(t, compressed_) ==
    write_window(t) \o write_usize(t.h) \o write_usize(t.numpoints)
    \o write_points(t.points, compressed_)

write_to_writer(t, compressed_) ==
    write_window(t) \o write_usize(t.numpoints) \o write_usize(t.h)
    \o write_points(t.points, compressed_)

-----------------------------------------------------------------------------
(* Reading a table.  A reader is the sequence of bytes not yet consumed;   *)
(* a read returns [ok, val, rest], rest being the reader after it.         *)

ReadOk(v, rest) == [ok |-> TRUE, val |-> v, rest |-> rest]

ReadErr == [ok |-> FALSE, val |-> 0, rest |-> <<>>]

\* usize::from_le_bytes
RECURSIVE from_le_bytes(_)
from_le_bytes(bytes) ==
    IF bytes = <<>> THEN 0 ELSE Head(bytes) + 256 * from_le_bytes(Tail(bytes))

\* A read that pads a short input with zero bytes instead of failing
ReadPadded(reader, n) ==
    IF Len(reader) < n
    THEN ReadOk(reader \o [i \in 1 .. n - Len(reader) |-> 0], <<>>)
    ELSE ReadOk(SubSeq(reader, 1, n), SubSeq(reader, n + 1, Len(reader)))

\* Read::read_exact of n bytes
read_exact(reader, n) ==
    IF Len(reader) < n THEN ReadErr
    ELSE ReadOk(SubSeq(reader, 1, n), SubSeq(reader, n + 1, Len(reader)))

read_usize(reader) ==
    LET r == read_exact(reader, 8)
    IN  IF r.ok THEN ReadOk(from_le_bytes(r.val), r.rest) ELSE ReadErr

\* Reads k words one after the other
RECURSIVE read_words(_, _)
read_words(reader, k) ==
    IF k = 0 THEN ReadOk(<<>>, reader)
    ELSE LET r == read_usize(reader)
         IN  IF ~r.ok THEN ReadErr
             ELSE LET more == read_words(r.rest, k - 1)
                  IN  IF ~more.ok THEN ReadErr
                      ELSE ReadOk(<<r.val>> \o more.val, more.rest)

\* A window reader that takes every tag other than 3 for a Sync window
ReadWindowLenient(reader) ==
    LET tag == read_usize(reader)
    IN  IF ~tag.ok THEN ReadErr
        ELSE IF tag.val = 3
        THEN LET w == read_words(tag.rest, 3)
             IN  IF w.ok THEN ReadOk(Parallel(w.val[1], w.val[2], w.val[3]), w.rest)
                 ELSE ReadErr
        ELSE LET w == read_words(tag.rest, 1)
             IN  IF w.ok THEN ReadOk(Sync(w.val[1]), w.rest) ELSE ReadErr

\* read_window: the tag word, then the words of the variant it names
read_window(reader) ==
    LET tag == read_usize(reader)
    IN  IF ~tag.ok THEN ReadErr
        ELSE IF tag.val = 1
        THEN LET w == read_words(tag.rest, 1)
             IN  IF w.ok THEN ReadOk(Sync(w.val[1]), w.rest) ELSE ReadErr
        ELSE IF tag.val = 3
        THEN LET w == read_words(tag.rest, 3)
             IN  IF w.ok THEN ReadOk(Parallel(w.val[1], w.val[2], w.val[3]), w.rest)
                 ELSE ReadErr
        ELSE ReadErr

\* The reading loop of sync_io_batch_reader (io_utils.rs:105-112)
RECURSIVE ReadRecords(_, _, _)
ReadRecords(reader, n, nbytes) ==
    IF n = 0 THEN ReadOk(<<>>, reader)
    ELSE LET r == read_exact(reader, nbytes)
         IN  IF ~r.ok THEN ReadErr
             ELSE LET more == ReadRecords(r.rest, n - 1, nbytes)
                  IN  IF ~more.ok THEN ReadErr
                      ELSE ReadOk(<<r.val>> \o more.val, more.rest)

\* The closure handed to batch_reader, applied to one record (bgmw.rs:430-432
\* for 48-byte records, bgmw.rs:443-445 for 96-byte records)
handler(name, bytes) ==
    IF name = "from_bytes" THEN from_bytes(bytes)
    ELSE IF name = "deserialize" THEN deserialize(bytes)
    ELSE IF name = "g2_from_bytes" THEN g2_from_bytes(bytes)
    ELSE g2_deserialize(bytes)

\* sync_io_batch_reader: all n records are read first, then decoded in order
sync_io_batch_reader(reader, n, nbytes, name) ==
    LET bytes == ReadRecords(reader, n, nbytes)
    IN  IF ~bytes.ok THEN ReadErr
        ELSE ReadOk([i \in 1 .. n |-> handler(name, bytes.val[i])], bytes.rest)

\* batch_reader with par_io = None under the parallel feature
batch_reader(reader, n, nbytes, name) ==
    sync_io_batch_reader(reader, n, nbytes, name)

\* A reader that looks at the first record's result only
ReadPointsFirstChecked(reader, numpoints, h, compressed_) ==
    LET affines == IF compressed_
                   THEN batch_reader(reader, numpoints * h, CompressedBytes, "from_bytes")
                   ELSE batch_reader(reader, numpoints * h, UncompressedBytes,
                                     "deserialize")
    IN  IF ~affines.ok THEN ReadErr
        ELSE IF Len(affines.val) >= 1 /\ ~affines.val[1].ok THEN ReadErr
        ELSE ReadOk([i \in 1 .. Len(affines.val) |-> affines.val[i].val], affines.rest)

read_points(reader, numpoints, h, compressed_) ==
    LET affines == IF compressed_
                   THEN batch_reader(reader, numpoints * h, CompressedBytes, "from_bytes")
                   ELSE batch_reader(reader, numpoints * h, UncompressedBytes,
                                     "deserialize")
    IN  IF ~affines.ok THEN ReadErr
        ELSE IF \E i \in 1 .. Len(affines.val) : ~affines.val[i].ok THEN ReadErr
        ELSE ReadOk([i \in 1 .. Len(affines.val) |-> affines.val[i].val], affines.rest)

read_from_reader(reader, compressed_) ==
    LET wnd == read_window(reader)
    IN  IF ~wnd.ok THEN ReadErr
        ELSE LET numpoints == read_usize(wnd.rest)
             IN  IF ~numpoints.ok THEN ReadErr
                 ELSE LET h == read_usize(numpoints.rest)
                      IN  IF ~h.ok THEN ReadErr
                          ELSE LET pts == read_points(h.rest, numpoints.val, h.val,
                                                      compressed_)
                               IN  IF ~pts.ok THEN ReadErr
                                   ELSE ReadOk([window |-> wnd.val,
                                                points |-> pts.val,
                                                numpoints |-> numpoints.val,
                                                h |-> h.val], pts.rest)

\* impl PartialEq for BgmwTable
TableEq(a, b) ==
    /\ WindowEq(a.window, b.window)
    /\ a.points = b.points
    /\ a.numpoints = b.numpoints
    /\ a.h = b.h

-----------------------------------------------------------------------------
(* multiply_parallel: the grid, the tile dispatch of a worker *)

Min(a, b) == IF a < b THEN a ELSE b

\* The rows of the grid below bit offset y (bgmw.rs:241-250)
RECURSIVE GridRowsBelow(_, _, _)
GridRowsBelow(row0, y, wnd) ==
    IF y <= 0 THEN <<>>
    ELSE [i \in 1 .. Len(row0) |->
             [x |-> row0[i].x, dx |-> row0[i].dx, y |-> y - wnd, dy |-> wnd]]
         \o GridRowsBelow(row0, y - wnd, wnd)

\* A grid whose last column is as wide as the others, the remainder left out
GridEqualColumns(npoints, nx, ny, wnd) ==
    LET dx == npoints \div nx
        y == wnd * (ny - 1)
        row0 == [i \in 1 .. nx |->
                    [x |-> (i - 1) * dx, dx |-> dx, y |-> y, dy |-> NBITS - y]]
    IN  row0 \o GridRowsBelow(row0, y, wnd)

\* The grid of bgmw.rs:223-251: the top bit-row first, then the rows below it
Grid(npoints, nx, ny, wnd) ==
    LET dx == npoints \div nx
        y == wnd * (ny - 1)
        row0 == [i \in 1 .. nx |->
                    [x |-> (i - 1) * dx,
                     dx |-> IF i = nx THEN npoints - (i - 1) * dx ELSE dx,
                     y |-> y,
                     dy |-> NBITS - y]]
    IN  row0 \o GridRowsBelow(row0, y, wnd)

\* scalars[x..]
SliceFrom(s, x) == SubSeq(s, x + 1, Len(s))

\* The bucket array a worker allocates (its own, bgmw.rs:273)
BucketArrayOf(w) == w

\* Every worker integrating into the first slot
SharedResultSlot(w) == 0

\* The slot a worker integrates into: results[worker_index] (bgmw.rs:278)
ResultSlot(w) == w

\* What a worker sends when it is through: tx.send(worker_index) (bgmw.rs:282)
Message(w) == w

\* A coordinator that keeps only the partial result it read last
KeepLastPartial(acc, partial) == partial

\* ret.add_or_dbl_assign(results[idx]) (bgmw.rs:310)
Combine(acc, partial) == Add(acc, partial)

\* Window bits without the carry bit of the truncated top window
TileWindowBitsNoCarry(y, wnd) ==
    IF y + wnd > NBITS THEN <<NBITS - y, NBITS - y>> ELSE <<wnd, wnd>>

\* (wbits, cbits) of a tile at bit offset y (bgmw.rs:294-299)
TileWindowBits(y, wnd) ==
    IF y + wnd > NBITS THEN <<NBITS - y, NBITS - y + 1>> ELSE <<wnd, wnd>>

\* One pass of the worker loop for a claimed tile (bgmw.rs:287-301)
TileDispatch(t, scalars_, buckets, tile) ==
    LET wnd == t.window.wnd
        row_start == (tile.y \div wnd) * t.numpoints + tile.x
        bits == TileWindowBits(tile.y, wnd)
    IN  IF row_start + tile.dx > Len(t.points) \/ tile.x > Len(scalars_) THEN Panic
        ELSE p1_tile_bgmw(SubSeq(t.points, row_start + 1, row_start + tile.dx),
                          SliceFrom(scalars_, tile.x), buckets, tile.y, bits[1], bits[2])

Uninit == -1

Coordinator == -1

-----------------------------------------------------------------------------
(* The table life cycle: build, then multiply or write and read back *)

\* par_io_batch_reader has not returned
NoOutcome == [tag |-> "pending", val |-> <<>>]

\* No kernel call made
NoCall == [op |-> "none"]

\* Tag values no window variant uses
BadTags == {0, 2, 4, 255}

Init ==
    /\ pc = "new"
    /\ inPoints = <<>>
    /\ table = NoTable
    /\ scalars = <<>>
    /\ seqOut = Panic
    /\ file = <<>>
    /\ compressed = FALSE
    /\ damage = "none"
    /\ readCompressed = FALSE
    /\ readOut = ReadErr
    /\ ncpus = 0
    /\ grid = <<>>
    /\ counter = 0
    /\ n_workers = 0
    /\ spawned = 0
    /\ wpc = <<>>
    /\ work = <<>>
    /\ wBuckets = <<>>
    /\ results = <<>>
    /\ chan = <<>>
    /\ nrecv = 0
    /\ ret = Identity
    /\ parOut = Panic
    /\ claimedBy = <<>>
    /\ processed = <<>>
    /\ accessLog = {}
    /\ recvLog = <<>>
    /\ kernel = NoCall
    /\ rpc = "idle"
    /\ rdCpus = 0
    /\ rdN = 0
    /\ stream = <<>>
    /\ rthread = "unborn"
    /\ rnext = 0
    /\ bytesCh = <<>>
    /\ parsedCh = <<>>
    /\ errCh = <<>>
    /\ rworker = <<>>
    /\ held = <<>>
    /\ output = <<>>
    /\ nparsed = 0
    /\ rdOut = NoOutcome

New ==
    /\ pc = "new"
    /\ \E pts \in PointLists(MaxPoints), cpus \in CpuCounts, w \in Widths,
          nx \in TileColumns :
          /\ inPoints' = pts
          /\ table' = BgmwTableNew(pts, window(Len(pts), cpus, w, nx, w))
    /\ pc' = "built"
    /\ UNCHANGED <<auxVars, scalars, seqOut, ioVars, parVars>>

MultiplySequential ==
    /\ pc = "built"
    /\ \E s \in ScalarLists(table.numpoints) :
          /\ scalars' = s
          /\ seqOut' = multiply_sequential(table, s)
    /\ pc' = "multiplied"
    /\ UNCHANGED <<auxVars, inPoints, table, ioVars, parVars>>

WriteToWriter ==
    /\ pc = "built"
    /\ \E c \in BOOLEAN :
          /\ compressed' = c
          /\ file' = write_to_writer(table, c)
    /\ pc' = "written"
    /\ UNCHANGED <<auxVars, inPoints, table, scalars, seqOut, damage, readCompressed, readOut, parVars>>

\* The file loses its last byte
Truncate ==
    /\ pc = "written"
    /\ damage = "none"
    /\ file' = SubSeq(file, 1, Len(file) - 1)
    /\ damage' = "truncated"
    /\ UNCHANGED <<auxVars, pc, inPoints, table, scalars, seqOut, compressed, readCompressed, readOut, parVars>>

\* The window tag is overwritten with a value no variant uses
CorruptTag ==
    /\ pc = "written"
    /\ damage = "none"
    /\ \E t \in BadTags :
          file' = write_usize(t) \o SubSeq(file, 9, Len(file))
    /\ damage' = "retagged"
    /\ UNCHANGED <<auxVars, pc, inPoints, table, scalars, seqOut, compressed, readCompressed, readOut, parVars>>

\* Bytes of one point record in the current format
RecordBytes(compressed_) ==
    IF compressed_ THEN CompressedBytes ELSE UncompressedBytes

\* Record k of the total point records that end the file f
PointRecord(f, k, total, nbytes) ==
    SubSeq(f, Len(f) - (total - k + 1) * nbytes + 1, Len(f) - (total - k) * nbytes)

\* The decoder read_points uses for each format
HandlerName(compressed_) ==
    IF compressed_ THEN "from_bytes" ELSE "deserialize"

\* One byte of one point record, the flags byte or the last coordinate byte,
\* is overwritten so that the decoder of the file's format rejects the record
CorruptPoint ==
    /\ pc = "written"
    /\ damage = "none"
    /\ LET total  == table.numpoints * table.h
           nbytes == RecordBytes(compressed)
       IN  \E k \in 1 .. total, off \in {1, nbytes} :
              LET pos == Len(file) - (total - k + 1) * nbytes + off
                  f2  == [file EXCEPT ![pos] = 255]
              IN  /\ ~handler(HandlerName(compressed),
                              PointRecord(f2, k, total, nbytes)).ok
                  /\ file' = f2
    /\ damage' = "badpoint"
    /\ UNCHANGED <<auxVars, pc, inPoints, table, scalars, seqOut, compressed, readCompressed, readOut, parVars>>

\* The header's h is rewritten to a smaller row count and the rows beyond it
\* are cut off: a well-formed file whose h is not the one its window implies
RewriteRows ==
    /\ pc = "written"
    /\ damage = "none"
    /\ LET k      == IF table.window.tag = "Sync" THEN 1 ELSE 3
           nbytes == RecordBytes(compressed)
       IN  \E h2 \in 0 .. table.h - 1 :
              file' = SubSeq(file, 1, 8 * (k + 2)) \o write_usize(h2)
                      \o SubSeq(file, 8 * (k + 3) + 1,
                                8 * (k + 3) + table.numpoints * h2 * nbytes)
    /\ damage' = "rows"
    /\ UNCHANGED <<auxVars, pc, inPoints, table, scalars, seqOut, compressed, readCompressed, readOut, parVars>>

ReadFromReader ==
    /\ pc = "written"
    /\ \E c \in BOOLEAN :
          /\ readCompressed' = c
          /\ readOut' = read_from_reader(file, c)
    /\ pc' = "read"
    /\ UNCHANGED <<auxVars, inPoints, table, scalars, seqOut, file, compressed, damage, parVars>>

Next ==
    \/ New
    \/ MultiplySequential
    \/ WriteToWriter
    \/ Truncate
    \/ CorruptTag
    \/ CorruptPoint
    \/ RewriteRows
    \/ ReadFromReader

Spec == Init /\ [][Next]_vars

-----------------------------------------------------------------------------
(* One multiply_parallel call, step by step *)

\* Inputs of the calls explored step by step
ParPointLists == {<<1, 3>>, <<3, 0, 1>>, <<1, 3, 0, 1>>}

ParWidths == {2, 3, NBITS}

ParScalarLists(n) == {[i \in 1 .. n |-> 2 ^ NBITS - 1],
                      [i \in 1 .. n |-> IF i = 2 THEN 10 ELSE 2 ^ NBITS - 3]}

ParNew ==
    /\ pc = "new"
    /\ \E pts \in ParPointLists, cpus \in CpuCounts, w \in ParWidths,
          nx \in TileColumns :
          /\ inPoints' = pts
          /\ table' = BgmwTableNew(pts, window(Len(pts), cpus, w, nx, w))
    /\ pc' = "built"
    /\ UNCHANGED <<auxVars, scalars, seqOut, ioVars, parVars>>

\* multiply_sequential on the table, before the parallel call on the same input
CallSequential ==
    /\ pc = "built"
    /\ \E s \in ParScalarLists(table.numpoints) :
          /\ scalars' = s
          /\ seqOut' = multiply_sequential(table, s)
    /\ pc' = "seqdone"
    /\ UNCHANGED <<auxVars, inPoints, table, ioVars, parVars>>

\* multiply_parallel on a Sync table: return self.multiply_sequential(scalars)
ParCallSync ==
    /\ pc = "seqdone"
    /\ table.window.tag = "Sync"
    /\ \E cpus \in CpuCounts : ncpus' = cpus
    /\ parOut' = multiply_sequential(table, scalars)
    /\ pc' = "returned"
    /\ UNCHANGED <<auxVars, inPoints, table, scalars, seqOut, ioVars, grid, counter, n_workers,
                   spawned, wpc, work, wBuckets, results, chan, nrecv, ret, claimedBy,
                   processed, accessLog, recvLog>>

\* multiply_parallel on a tiling table, up to the launch loop (bgmw.rs:207-265)
ParCallTiled ==
    /\ pc = "seqdone"
    /\ table.window.tag = "Parallel"
    /\ \E cpus \in CpuCounts :
          LET g == Grid(Len(scalars), table.window.nx, table.window.ny, table.window.wnd)
              total == Len(g)
              nw == Min(cpus, total)
          IN  /\ ncpus' = cpus
              /\ grid' = g
              /\ n_workers' = nw
              /\ wpc' = [w \in 0 .. nw - 1 |-> "unborn"]
              /\ work' = [w \in 0 .. nw - 1 |-> 0]
              /\ wBuckets' = [w \in 0 .. nw - 1 |-> EmptyBuckets(table.window.wnd)]
              /\ results' = [k \in 0 .. nw - 1 |-> Uninit]
              /\ claimedBy' = [k \in 0 .. total - 1 |-> {}]
              /\ processed' = [k \in 0 .. total - 1 |-> 0]
    /\ counter' = 0
    /\ spawned' = 0
    /\ chan' = <<>>
    /\ nrecv' = 0
    /\ ret' = Identity
    /\ accessLog' = {}
    /\ recvLog' = <<>>
    /\ pc' = "spawn"
    /\ UNCHANGED <<auxVars, inPoints, table, scalars, seqOut, ioVars, parOut>>

\* pool.joined_execute for the next worker_index (bgmw.rs:268-304)
ParSpawn ==
    /\ pc = "spawn"
    /\ spawned < n_workers
    /\ wpc' = [wpc EXCEPT ![spawned] = "fetch"]
    /\ spawned' = spawned + 1
    /\ pc' = IF spawned + 1 = n_workers THEN "recv" ELSE "spawn"
    /\ UNCHANGED <<auxVars, inPoints, table, scalars, seqOut, ioVars, ncpus, grid, counter,
                   n_workers, work, wBuckets, results, chan, nrecv, ret, parOut,
                   claimedBy, processed, accessLog, recvLog>>

\* counter.fetch_add(1), and the test work >= total (bgmw.rs:275-276)
WorkerFetch(w) ==
    /\ wpc[w] = "fetch"
    /\ counter' = counter + 1
    /\ work' = [work EXCEPT ![w] = counter]
    /\ accessLog' = accessLog \cup {<<"counter", 0, w, "write">>}
    /\ IF counter >= Len(grid)
       THEN /\ wpc' = [wpc EXCEPT ![w] = "integrate"]
            /\ UNCHANGED claimedBy
       ELSE /\ wpc' = [wpc EXCEPT ![w] = "tile"]
            /\ claimedBy' = [claimedBy EXCEPT ![counter] = @ \cup {w}]
    /\ UNCHANGED <<auxVars, pc, inPoints, table, scalars, seqOut, ioVars, ncpus, grid, n_workers,
                   spawned, wBuckets, results, chan, nrecv, ret, parOut, processed,
                   recvLog>>

\* The claimed tile goes through p1_tile_bgmw (bgmw.rs:287-301); an index out
\* of range ends the worker
WorkerTile(w) ==
    /\ wpc[w] = "tile"
    /\ LET b == BucketArrayOf(w)
           r == TileDispatch(table, scalars, wBuckets[b], grid[work[w] + 1])
       IN  /\ accessLog' = accessLog \cup {<<"buckets", b, w, "write">>}
           /\ IF r.ok
              THEN /\ wBuckets' = [wBuckets EXCEPT ![b] = r.val]
                   /\ processed' = [processed EXCEPT ![work[w]] = @ + 1]
                   /\ wpc' = [wpc EXCEPT ![w] = "fetch"]
              ELSE /\ wpc' = [wpc EXCEPT ![w] = "panicked"]
                   /\ UNCHANGED <<wBuckets, processed>>
    /\ UNCHANGED <<auxVars, pc, inPoints, table, scalars, seqOut, ioVars, ncpus, grid, counter,
                   n_workers, spawned, work, results, chan, nrecv, ret, parOut,
                   claimedBy, recvLog>>

\* integrate_buckets into results[worker_index] (bgmw.rs:277-281)
WorkerIntegrate(w) ==
    /\ wpc[w] = "integrate"
    /\ LET b == BucketArrayOf(w)
           k == ResultSlot(w)
       IN  /\ results' = [results EXCEPT
                             ![k] = integrate_buckets(wBuckets[b], table.window.wnd - 1).val]
           /\ accessLog' = accessLog \cup {<<"buckets", b, w, "read">>,
                                           <<"result", k, w, "write">>}
    /\ wpc' = [wpc EXCEPT ![w] = "send"]
    /\ UNCHANGED <<auxVars, pc, inPoints, table, scalars, seqOut, ioVars, ncpus, grid, counter,
                   n_workers, spawned, work, wBuckets, chan, nrecv, ret, parOut,
                   claimedBy, processed, recvLog>>

\* tx.send(worker_index), after which the worker is through (bgmw.rs:282-284)
WorkerSend(w) ==
    /\ wpc[w] = "send"
    /\ chan' = Append(chan, Message(w))
    /\ wpc' = [wpc EXCEPT ![w] = "done"]
    /\ UNCHANGED <<auxVars, pc, inPoints, table, scalars, seqOut, ioVars, ncpus, grid, counter,
                   n_workers, spawned, work, wBuckets, results, nrecv, ret, parOut,
                   claimedBy, processed, accessLog, recvLog>>

\* rx.recv() and the addition of results[idx] (bgmw.rs:307-311).  A slot not
\* yet written holds whatever the allocation held.
ParRecv ==
    /\ pc = "recv"
    /\ nrecv < n_workers
    /\ chan # <<>>
    /\ LET idx == Head(chan)
       IN  /\ \E v \in IF results[idx] = Uninit THEN 0 .. GroupOrder - 1
                       ELSE {results[idx]} :
                  ret' = Combine(ret, v)
           /\ accessLog' = accessLog \cup {<<"result", idx, Coordinator, "read">>}
           /\ recvLog' = Append(recvLog, idx)
    /\ chan' = Tail(chan)
    /\ nrecv' = nrecv + 1
    /\ UNCHANGED <<auxVars, pc, inPoints, table, scalars, seqOut, ioVars, ncpus, grid, counter,
                   n_workers, spawned, wpc, work, wBuckets, results, parOut, claimedBy,
                   processed>>

\* The loop over 0..n_workers is through: multiply_parallel returns ret
ParReturn ==
    /\ pc = "recv"
    /\ nrecv = n_workers
    /\ parOut' = Ok(ret)
    /\ pc' = "returned"
    /\ UNCHANGED <<auxVars, inPoints, table, scalars, seqOut, ioVars, ncpus, grid, counter,
                   n_workers, spawned, wpc, work, wBuckets, results, chan, nrecv, ret,
                   claimedBy, processed, accessLog, recvLog>>

Worker(w) ==
    \/ WorkerFetch(w)
    \/ WorkerTile(w)
    \/ WorkerIntegrate(w)
    \/ WorkerSend(w)

ParNext ==
    \/ ParNew
    \/ CallSequential
    \/ ParCallSync
    \/ ParCallTiled
    \/ ParSpawn
    \/ \E w \in DOMAIN wpc : WorkerFetch(w)
    \/ \E w \in DOMAIN wpc : WorkerTile(w)
    \/ \E w \in DOMAIN wpc : WorkerIntegrate(w)
    \/ \E w \in DOMAIN wpc : WorkerSend(w)
    \/ ParRecv
    \/ ParReturn

SpecPar == Init /\ [][ParNext]_vars

\* Every worker the pool may run
PoolWorkers == {c - 1 : c \in CpuCounts}

\* The pool runs every launched worker, and the coordinator is not starved
SpecParFair ==
    /\ SpecPar
    /\ WF_vars(ParSpawn)
    /\ \A w \in PoolWorkers : WF_vars(w \in DOMAIN wpc /\ Worker(w))
    /\ WF_vars(ParRecv)
    /\ WF_vars(ParReturn)

-----------------------------------------------------------------------------
(* The kernels on their own: one call on arguments of any content *)

KernelPointLists == UNION {[1 .. n -> PointValues] : n \in 2 .. 3}

KernelScalarValues == ScalarValues \cup {1, 2 ^ (NBITS - 1)}

\* The (width, call) pairs multiply_sequential passes to p1_tile_bgmw
KernelCalls ==
    UNION {{<<w, SeqCallsOfWidth(w)[k]>> : k \in DOMAIN SeqCallsOfWidth(w)} : w \in Widths}

\* Bucket arrays of 2^wbits buckets
BucketArrays == UNION {[1 .. 2 ^ wb -> 0 .. GroupOrder - 1] : wb \in 0 .. 2}

\* Base-2 logarithm of a power of two
RECURSIVE Log2(_)
Log2(n) == IF n <= 1 THEN 0 ELSE 1 + Log2(n \div 2)

\* One p1_tile_bgmw call on buckets that are empty or already hold points
TileAny ==
    /\ kernel = NoCall
    /\ \E pts \in KernelPointLists, wc \in KernelCalls, filled \in BOOLEAN :
          \E s \in [1 .. Len(pts) -> KernelScalarValues] :
              LET b == IF filled THEN [k \in 1 .. 2 ^ (wc[1] - 1) |-> 1]
                       ELSE EmptyBuckets(wc[1])
                  c == wc[2]
              IN  kernel' = [op |-> "tile", points |-> pts, scalars |-> s,
                             buckets |-> b, bit0 |-> c.bit0, wbits |-> c.wbits,
                             cbits |-> c.cbits,
                             out |-> p1_tile_bgmw(pts, s, b, c.bit0, c.wbits, c.cbits)]
    /\ UNCHANGED <<pc, inPoints, table, scalars, seqOut, ioVars, parVars, rdVars>>

\* One integrate_buckets call
IntegrateAny ==
    /\ kernel = NoCall
    /\ \E b \in BucketArrays :
          kernel' = [op |-> "integrate", buckets |-> b, wbits |-> Log2(Len(b)),
                     out |-> integrate_buckets(b, Log2(Len(b)))]
    /\ UNCHANGED <<pc, inPoints, table, scalars, seqOut, ioVars, parVars, rdVars>>

KernelNext ==
    \/ TileAny
    \/ IntegrateAny

SpecKernel == Init /\ [][KernelNext]_vars

-----------------------------------------------------------------------------
(* par_io_batch_reader, step by step (io_utils.rs:26-93) *)

\* Hardware core counts: num_cpus::get()
ReaderCpuCounts == {1, 2, 3, 4}

\* The streams: up to MaxRecords complete 48-byte records
Streams == UNION {[1 .. m -> {to_bytes(p) : p \in PointValues}] : m \in 0 .. MaxRecords}

RdOk(v) == [tag |-> "ok", val |-> v]

RdErr == [tag |-> "err", val |-> <<>>]

RdPanic == [tag |-> "panic", val |-> <<>>]

\* A slot of vec![mem::zeroed(); n] not written yet
Zeroed == [ok |-> FALSE, val |-> -1]

\* usize::min(num_cpus::get() - 2, n): the subtraction on usize either
\* panics (overflow checks on) or wraps to a huge count (overflow checks off)
WorkerCounts(cpus, n) ==
    IF cpus >= 2 THEN {Min(cpus - 2, n)} ELSE {-1, n}

\* The call: channels made, the read thread spawned (io_utils.rs:35-56)
RdCall ==
    /\ rpc = "idle"
    /\ kernel = NoCall /\ pc = "new"
    /\ \E st \in Streams, n \in 0 .. MaxRecords, cpus \in ReaderCpuCounts :
          /\ stream' = st
          /\ rdN' = n
          /\ rdCpus' = cpus
    /\ rthread' = "running"
    /\ rpc' = "workers"
    /\ UNCHANGED <<pc, inPoints, table, scalars, seqOut, ioVars, parVars, kernel,
                   rnext, bytesCh, parsedCh, errCh, rworker, held, output, nparsed,
                   rdOut>>

\* One round of the read thread's loop, or its end (io_utils.rs:45-54)
ReadThreadStep ==
    /\ rthread = "running"
    /\ rpc # "panicked"
    /\ IF rnext = rdN
       THEN /\ rthread' = "finished"
            /\ UNCHANGED <<rnext, bytesCh, errCh>>
       ELSE IF rnext < Len(stream)
       THEN /\ bytesCh' = Append(bytesCh, <<rnext, stream[rnext + 1]>>)
            /\ rnext' = rnext + 1
            /\ UNCHANGED <<rthread, errCh>>
       ELSE /\ errCh' = IF errCh = <<>> THEN <<"read error">> ELSE errCh
            /\ rthread' = "failed"
            /\ UNCHANGED <<rnext, bytesCh>>
    /\ UNCHANGED <<pc, inPoints, table, scalars, seqOut, ioVars, parVars, kernel,
                   rpc, rdCpus, rdN, stream, parsedCh, rworker, held, output, nparsed,
                   rdOut>>

\* n_workers and the decode workers spawned, the output vector allocated
\* (io_utils.rs:58-71)
RdSpawnWorkers ==
    /\ rpc = "workers"
    /\ \E nw \in WorkerCounts(rdCpus, rdN) :
          IF nw < 0
          THEN /\ rpc' = "panicked"
               /\ rdOut' = RdPanic
               /\ UNCHANGED <<rworker, held, output>>
          ELSE /\ rworker' = [w \in 1 .. nw |-> "waiting"]
               /\ held' = [w \in 1 .. nw |-> <<>>]
               /\ output' = [i \in 1 .. rdN |-> Zeroed]
               /\ rpc' = "collect"
               /\ UNCHANGED rdOut
    /\ UNCHANGED <<pc, inPoints, table, scalars, seqOut, ioVars, parVars, kernel,
                   rdCpus, rdN, stream, rthread, rnext, bytesCh, parsedCh, errCh,
                   nparsed>>

\* Every bytes_tx is dropped: the read thread is through and the calling
\* thread has left the closure
BytesDisconnected == rthread \in {"finished", "failed"} /\ rpc \in {"left", "returned"}

\* bytes_rx.recv() of a decode worker (io_utils.rs:65)
DecodeRecv(w) ==
    /\ rworker[w] = "waiting"
    /\ IF bytesCh # <<>>
       THEN /\ held' = [held EXCEPT ![w] = Head(bytesCh)]
            /\ bytesCh' = Tail(bytesCh)
            /\ rworker' = [rworker EXCEPT ![w] = "decoding"]
       ELSE /\ BytesDisconnected
            /\ rworker' = [rworker EXCEPT ![w] = "exited"]
            /\ UNCHANGED <<held, bytesCh>>
    /\ UNCHANGED <<pc, inPoints, table, scalars, seqOut, ioVars, parVars, kernel,
                   rpc, rdCpus, rdN, stream, rthread, rnext, parsedCh, errCh, output,
                   nparsed, rdOut>>

\* handler(&bytes) and parsed_tx.send((i, parsed)) (io_utils.rs:66-67)
DecodeSend(w) ==
    /\ rworker[w] = "decoding"
    /\ parsedCh' = Append(parsedCh, <<held[w][1], handler("from_bytes", held[w][2])>>)
    /\ held' = [held EXCEPT ![w] = <<>>]
    /\ rworker' = [rworker EXCEPT ![w] = "waiting"]
    /\ UNCHANGED <<pc, inPoints, table, scalars, seqOut, ioVars, parVars, kernel,
                   rpc, rdCpus, rdN, stream, rthread, rnext, bytesCh, errCh, output,
                   nparsed, rdOut>>

\* parsed_rx.recv() and output[i] = parsed (io_utils.rs:73-76)
RdCollect ==
    /\ rpc = "collect"
    /\ nparsed < rdN
    /\ parsedCh # <<>>
    /\ output' = [output EXCEPT ![Head(parsedCh)[1] + 1] = Head(parsedCh)[2]]
    /\ parsedCh' = Tail(parsedCh)
    /\ nparsed' = nparsed + 1
    /\ UNCHANGED <<pc, inPoints, table, scalars, seqOut, ioVars, parVars, kernel,
                   rpc, rdCpus, rdN, stream, rthread, rnext, bytesCh, errCh, rworker,
                   held, rdOut>>

\* The loop is through: read_thread.join(), err_rx.try_recv(), and the value
\* the closure leaves with (io_utils.rs:78-91)
RdJoin ==
    /\ rpc = "collect"
    /\ nparsed = rdN
    /\ rthread \in {"finished", "failed"}
    /\ rdOut' = IF errCh # <<>> THEN RdErr ELSE RdOk(output)
    /\ rpc' = "left"
    /\ UNCHANGED <<pc, inPoints, table, scalars, seqOut, ioVars, parVars, kernel,
                   rdCpus, rdN, stream, rthread, rnext, bytesCh, parsedCh, errCh,
                   rworker, held, output, nparsed>>

\* std::thread::scope returns once every spawned thread is through
RdScopeExit ==
    /\ rpc = "left"
    /\ \A w \in DOMAIN rworker : rworker[w] = "exited"
    /\ rpc' = "returned"
    /\ UNCHANGED <<pc, inPoints, table, scalars, seqOut, ioVars, parVars, kernel,
                   rdCpus, rdN, stream, rthread, rnext, bytesCh, parsedCh, errCh,
                   rworker, held, output, nparsed, rdOut>>

DecodeWorker(w) ==
    \/ DecodeRecv(w)
    \/ DecodeSend(w)

ReaderNext ==
    \/ RdCall
    \/ ReadThreadStep
    \/ RdSpawnWorkers
    \/ \E w \in DOMAIN rworker : DecodeRecv(w)
    \/ \E w \in DOMAIN rworker : DecodeSend(w)
    \/ RdCollect
    \/ RdJoin
    \/ RdScopeExit

SpecReader == Init /\ [][ReaderNext]_vars

\* Every decode worker there may be
DecodeWorkers == 1 .. MaxRecords

\* Every thread that can take a step does so in the end
SpecReaderFair ==
    /\ SpecReader
    /\ WF_vars(ReadThreadStep)
    /\ WF_vars(RdSpawnWorkers)
    /\ \A w \in DecodeWorkers : WF_vars(w \in DOMAIN rworker /\ DecodeWorker(w))
    /\ WF_vars(RdCollect)
    /\ WF_vars(RdJoin)
    /\ WF_vars(RdScopeExit)

-----------------------------------------------------------------------------
(* Trusted-setup files (blst/src/utils.rs): a u64 count and the G1 points, *)
(* then a u64 count and the G2 points.                                     *)

RECURSIVE write_g2_points(_, _)
write_g2_points(pts, compressed_) ==
    IF pts = <<>> THEN <<>>
    ELSE (IF compressed_ THEN g2_to_bytes(Head(pts)) ELSE g2_serialize(Head(pts)))
         \o write_g2_points(Tail(pts), compressed_)

\* The G1 part and the G2 part that save_secrets_to_file writes
SavedG1(secret_g1, compressed_) ==
    write_usize(Len(secret_g1)) \o write_points(secret_g1, compressed_)

SavedG2(secret_g2, compressed_) ==
    write_usize(Len(secret_g2)) \o write_g2_points(secret_g2, compressed_)

G2RecordBytes(compressed_) ==
    IF compressed_ THEN G2CompressedBytes ELSE G2UncompressedBytes

G2HandlerName(compressed_) ==
    IF compressed_ THEN "g2_from_bytes" ELSE "g2_deserialize"

\* g1_handler / g2_handler over the whole batch: the decoder's result goes
\* through expect, which panics on Err; a panic in a handler unwinds through
\* the batch reader into the caller
LoadBatch(reader, n, nbytes, name) ==
    LET batch == batch_reader(reader, n, nbytes, name)
    IN  IF ~batch.ok THEN RdErr
        ELSE IF \E i \in 1 .. n : ~batch.val[i].ok THEN RdPanic
        ELSE RdOk([i \in 1 .. n |-> batch.val[i].val])

load_g1(reader, compressed_) ==
    LET g1_size == read_exact(reader, 8)
    IN  IF ~g1_size.ok THEN RdErr
        ELSE LoadBatch(g1_size.rest, from_le_bytes(g1_size.val),
                       RecordBytes(compressed_), HandlerName(compressed_))

load_g2(reader, compressed_) ==
    LET g2_size == read_exact(reader, 8)
    IN  IF ~g2_size.ok THEN RdErr
        ELSE LoadBatch(g2_size.rest, from_le_bytes(g2_size.val),
                       G2RecordBytes(compressed_), G2HandlerName(compressed_))

\* The point lists saved to the files that are loaded
SetupLists == UNION {[1 .. n -> PointValues] : n \in 0 .. MaxRecords}

\* Record k of a part
SetupRecord(f, k, nbytes) ==
    SubSeq(f, 8 + (k - 1) * nbytes + 1, 8 + k * nbytes)

\* What may have happened to a saved part f of n records of nbytes bytes
\* before it is loaded: nothing, its last byte lost, or the flags byte or the
\* last coordinate byte of one record overwritten so that the decoder name
\* rejects the record
Damaged(f, n, nbytes, name) ==
    {[bytes |-> f, damage |-> "none"],
     [bytes |-> SubSeq(f, 1, Len(f) - 1), damage |-> "truncated"]}
    \cup
    {[bytes |-> f2, damage |-> "badpoint"] :
        f2 \in {g \in {[f EXCEPT ![8 + (k - 1) * nbytes + off] = 255] :
                          k \in 1 .. n, off \in {1, nbytes}} :
                   \E k \in 1 .. n : ~handler(name, SetupRecord(g, k, nbytes)).ok}}

LoadG1 ==
    /\ kernel = NoCall
    /\ \E pts \in SetupLists, c \in BOOLEAN :
          \E d \in Damaged(SavedG1(pts, c), Len(pts), RecordBytes(c), HandlerName(c)) :
             kernel' = [op |-> "load_g1", saved |-> pts, reader |-> d.bytes,
                        damage |-> d.damage, compressed |-> c,
                        out |-> load_g1(d.bytes, c)]
    /\ UNCHANGED <<pc, inPoints, table, scalars, seqOut, ioVars, parVars, rdVars>>

LoadG2 ==
    /\ kernel = NoCall
    /\ \E pts \in SetupLists, c \in BOOLEAN :
          \E d \in Damaged(SavedG2(pts, c), Len(pts), G2RecordBytes(c),
                            G2HandlerName(c)) :
             kernel' = [op |-> "load_g2", saved |-> pts, reader |-> d.bytes,
                        damage |-> d.damage, compressed |-> c,
                        out |-> load_g2(d.bytes, c)]
    /\ UNCHANGED <<pc, inPoints, table, scalars, seqOut, ioVars, parVars, rdVars>>

LoadNext ==
    \/ LoadG1
    \/ LoadG2

SpecLoad == Init /\ [][LoadNext]_vars

-----------------------------------------------------------------------------
(* Properties *)

IsSync == table.window.tag = "Sync"

IsTiled == table.window.tag = "Parallel"

\* C1: for n >= 2 points and n scalars, multiply_sequential on the Sync table
\* that new builds returns the naive sum of scalar_i * point_i; it returns the
\* identity when all scalars are zero and when all points are the identity.
C1_SequentialIsNaiveSum ==
    (pc = "multiplied" /\ IsSync /\ Len(inPoints) >= 2) =>
        /\ seqOut = Ok(NaiveSum(inPoints, scalars))
        /\ (\A i \in DOMAIN scalars : scalars[i] = 0) => seqOut = Ok(Identity)
        /\ (\A i \in DOMAIN inPoints : inPoints[i] = Identity) => seqOut = Ok(Identity)

C1_Witness ==
    /\ pc = "multiplied" /\ IsSync /\ Len(inPoints) = 3
    /\ table.window.wnd = 3
    /\ seqOut.ok /\ seqOut.val # Identity
    /\ seqOut.val = NaiveSum(inPoints, scalars)

C3_RoundTripEqual ==
    (pc = "read" /\ damage = "none" /\ readCompressed = compressed) =>
        (readOut.ok /\ TableEq(readOut.val, table))

\* C4 as stated: for one point and one scalar multiply_sequential returns
\* scalar_0 * point_0.
C4_SinglePoint ==
    (pc = "multiplied" /\ Len(inPoints) = 1) =>
        seqOut = Ok(Mul(inPoints[1], scalars[1]))

\* C5: read_from_reader on a serialized table without its last byte returns
\* Err and no table, for both window variants, both encodings, every size.
C5_TruncatedReadFails ==
    (pc = "read" /\ damage = "truncated") => readOut = ReadErr

C5_Witness ==
    /\ pc = "read" /\ damage = "truncated"
    /\ table.numpoints = 0
    /\ Len(file) = 31
    /\ ~readOut.ok

\* C6: read_window returns a window exactly when the leading tag is 1 (Sync,
\* one word follows) or 3 (Parallel, three words follow); with any other tag
\* read_from_reader fails and produces no table.
C6_TagDecidesWindow ==
    pc = "read" =>
        LET tag == from_le_bytes(SubSeq(file, 1, 8))
            wnd == read_window(file)
        IN  /\ wnd.ok <=> \/ tag = 1 /\ Len(file) >= 16
                          \/ tag = 3 /\ Len(file) >= 32
            /\ (wnd.ok /\ tag = 1) => wnd.val.tag = "Sync"
            /\ (wnd.ok /\ tag = 3) => wnd.val.tag = "Parallel"
            /\ tag \notin {1, 3} => readOut = ReadErr

C6_Witness ==
    /\ pc = "read" /\ damage = "retagged"
    /\ from_le_bytes(SubSeq(file, 1, 8)) = 2
    /\ ~readOut.ok

AllWorkersStopped ==
    /\ pc \in {"recv", "returned"}
    /\ \A w \in DOMAIN wpc : wpc[w] \in {"done", "panicked"}

\* C7 as stated: under every interleaving each tile index is claimed by
\* exactly one worker and processed exactly once; none is skipped, none is
\* processed twice.
C7_EveryTileOnce ==
    /\ \A k \in DOMAIN claimedBy :
          Cardinality(claimedBy[k]) <= 1 /\ processed[k] <= 1
    /\ AllWorkersStopped =>
          \A k \in DOMAIN claimedBy :
              Cardinality(claimedBy[k]) = 1 /\ processed[k] = 1

\* The number of completion messages worker w has sent
RECURSIVE Count(_, _)
Count(seq, v) ==
    IF seq = <<>> THEN 0
    ELSE (IF Head(seq) = v THEN 1 ELSE 0) + Count(Tail(seq), v)

Sent(w) == Count(recvLog \o chan, w)

\* C8 as stated: under fair scheduling every multiply_parallel call on a
\* tiling table returns; min(pool size, tile count) workers are launched, each
\* sends exactly one completion message, and the coordinator returns after
\* receiving n_workers messages.
C8_RunsToCompletion ==
    /\ [](pc \in {"spawn", "recv"} =>
            /\ n_workers = Min(ncpus, Len(grid))
            /\ \A w \in DOMAIN wpc : Sent(w) <= 1)
    /\ (pc = "spawn") ~>
            (/\ pc = "returned"
             /\ spawned = n_workers
             /\ nrecv = n_workers
             /\ \A w \in DOMAIN wpc : Sent(w) = 1)

\* The buckets of one worker that takes the tiles in grid order
RECURSIVE InOrderBuckets(_, _, _, _)
InOrderBuckets(t, scalars_, tiles, buckets) ==
    IF tiles = <<>> THEN Ok(buckets)
    ELSE LET r == TileDispatch(t, scalars_, buckets, Head(tiles))
         IN  IF r.ok THEN InOrderBuckets(t, scalars_, Tail(tiles), r.val) ELSE Panic

InOrderResult(t, scalars_, tiles) ==
    LET b == InOrderBuckets(t, scalars_, tiles, EmptyBuckets(t.window.wnd))
    IN  IF b.ok THEN integrate_buckets(b.val, t.window.wnd - 1) ELSE Panic

\* C9: for a fixed tiling table and scalar list the value multiply_parallel
\* returns does not depend on which worker took which tile, nor on the order
\* in which the completion messages arrive: it is the value one worker
\* computes taking all tiles in grid order.
C9_ScheduleIndependent ==
    (pc = "returned" /\ IsTiled) => parOut = InOrderResult(table, scalars, grid)

C9_Witness ==
    /\ pc = "returned" /\ IsTiled
    /\ Len(recvLog) >= 2 /\ recvLog[1] > recvLog[2]
    /\ \E k \in DOMAIN claimedBy : claimedBy[k] = {1}
    /\ parOut.ok /\ parOut.val # Identity

\* C10: no bucket array and no partial-result slot is accessed by more than
\* one worker; the coordinator reads a slot only after its worker has written
\* it and sent its message; the work counter is the only object more than one
\* thread writes.
C10_PrivateState ==
    /\ \A e1 \in accessLog, e2 \in accessLog :
          (/\ e1[1] \in {"buckets", "result"}
           /\ e1[1] = e2[1] /\ e1[2] = e2[2]
           /\ e1[3] # Coordinator /\ e2[3] # Coordinator) => e1[3] = e2[3]
    /\ \A e \in accessLog :
          (e[1] = "result" /\ e[3] = Coordinator) =>
              /\ results[e[2]] # Uninit
              /\ \E w \in DOMAIN wpc :
                    /\ <<"result", e[2], w, "write">> \in accessLog
                    /\ wpc[w] = "done"
    /\ \A e1 \in accessLog, e2 \in accessLog :
          (/\ e1[4] = "write" /\ e2[4] = "write"
           /\ e1[1] = e2[1] /\ e1[2] = e2[2]
           /\ e1[3] # e2[3]) => e1[1] = "counter"

C10_Witness ==
    /\ pc = "returned"
    /\ n_workers >= 2
    /\ \A w \in DOMAIN wpc :
          /\ <<"buckets", w, w, "write">> \in accessLog
          /\ <<"result", w, Coordinator, "read">> \in accessLog

\* C11: after new the matrix has exactly numpoints * h entries, and the entry
\* at index j * numpoints + i is point_i multiplied by (2^width)^j, for every
\* i < numpoints and j < h.
C11_MatrixLayout ==
    pc # "new" =>
        /\ table.numpoints = Len(inPoints)
        /\ Len(table.points) = table.numpoints * table.h
        /\ \A i \in 0 .. table.numpoints - 1, j \in 0 .. table.h - 1 :
              table.points[j * table.numpoints + i + 1] =
                  Mul(inPoints[i + 1], (2 ^ table.window.wnd) ^ j)

C11_Witness ==
    /\ pc = "built"
    /\ table.numpoints = 3 /\ table.h = 3 /\ table.window.wnd = 2
    /\ inPoints[2] = 3
    /\ table.points[3 + 2] = Mul(3, 4) /\ table.points[6 + 2] = Mul(3, 16)
    /\ table.points[6 + 2] # table.points[3 + 2]

\* ceil(NBITS / w)
CeilRows(w) == (NBITS + w - 1) \div w

\* C12 as stated: for a single-width window of width w the row count h is
\* ceil(NBITS / w), plus one when NBITS is not an exact multiple of w.
C12_ExtraRowWhenInexact ==
    (pc # "new" /\ IsSync) =>
        table.h = CeilRows(table.window.wnd)
                  + (IF NBITS % table.window.wnd # 0 THEN 1 ELSE 0)

\* C12, amended: the row count is ceil(NBITS / w), plus one when NBITS is an
\* exact multiple of w; that is floor(NBITS / w) + 1 for every width.
C12_ExtraRowWhenExact ==
    (pc # "new" /\ IsSync) =>
        /\ table.h = CeilRows(table.window.wnd)
                     + (IF NBITS % table.window.wnd = 0 THEN 1 ELSE 0)
        /\ table.h = NBITS \div table.window.wnd + 1

C12_Witness ==
    /\ pc = "built" /\ IsSync
    /\ table.window.wnd = NBITS
    /\ table.h = 2
    /\ Len(table.points) = 2 * Len(inPoints) /\ Len(inPoints) = 2

\* Every point decoded once with the digit of its own scalar, in index order
RECURSIVE TileNoLookahead(_, _, _, _, _, _)
TileNoLookahead(points, scalars_, buckets, bit0, wbits, cbits) ==
    IF points = <<>> THEN buckets
    ELSE TileNoLookahead(Tail(points), Tail(scalars_),
                         booth_decode(buckets,
                                      TileWval(Head(scalars_), bit0, wbits, cbits),
                                      cbits, Head(points)),
                         bit0, wbits, cbits)

\* The columns x .. x + dx - 1 of table row y / width
TilePoints(t, tile) ==
    LET row_start == (tile.y \div t.window.wnd) * t.numpoints + tile.x
    IN  SubSeq(t.points, row_start + 1, row_start + tile.dx)

\* C13 as stated: a worker that holds a tile {x, dx, y} adds exactly the dx
\* points of row y / width at columns x .. x + dx - 1, each with the scalar of
\* the same index, to its buckets, and indexes no scalar outside
\* x .. x + dx - 1.
C13_TileWithinItsColumns ==
    \A w \in DOMAIN wpc :
        wpc[w] = "tile" =>
            LET tile == grid[work[w] + 1]
                bits == TileWindowBits(tile.y, table.window.wnd)
                wbits == bits[1]
                cbits == bits[2]
            IN  /\ TileDispatch(table, scalars, wBuckets[BucketArrayOf(w)], tile) =
                       Ok(TileNoLookahead(TilePoints(table, tile),
                                          SubSeq(scalars, tile.x + 1, tile.x + tile.dx),
                                          wBuckets[BucketArrayOf(w)],
                                          tile.y, wbits, cbits))
                /\ \A k \in ScalarsRead(tile.dx, Len(scalars) - tile.x) :
                       tile.x + k \in tile.x .. tile.x + tile.dx - 1

GridBuilt == pc \in {"spawn", "recv", "returned"} /\ IsTiled

\* The tile of bit-row r (0 is the top row) and column c
TileAt(r, c) == grid[r * table.window.nx + c + 1]

\* C14: the grid holds nx * ny tiles; in every bit-row the column ranges
\* [x, x + dx) are disjoint and cover the point indices, dx being
\* floor(npoints / nx) but for the last column, which takes the remainder; the
\* bit ranges [y, y + dy) of the rows are disjoint and cover bits
\* 0 .. NBITS - 1, the top row having y = width * (ny - 1), dy = NBITS - y.
C14_GridPartition ==
    GridBuilt =>
        LET nx == table.window.nx
            ny == table.window.ny
            wnd == table.window.wnd
            npoints == Len(scalars)
        IN  /\ Len(grid) = nx * ny
            /\ \A r \in 0 .. ny - 1 :
                  /\ \A c \in 0 .. nx - 1 :
                        /\ TileAt(r, c).x = c * (npoints \div nx)
                        /\ TileAt(r, c).dx = IF c = nx - 1
                                            THEN npoints - TileAt(r, c).x
                                            ELSE npoints \div nx
                        /\ TileAt(r, c).y = TileAt(r, 0).y
                        /\ TileAt(r, c).dy = TileAt(r, 0).dy
                  /\ \A p \in 0 .. npoints - 1 :
                        Cardinality({c \in 0 .. nx - 1 :
                                        /\ TileAt(r, c).x <= p
                                        /\ p < TileAt(r, c).x + TileAt(r, c).dx}) = 1
            /\ \A b \in 0 .. NBITS - 1 :
                  Cardinality({r \in 0 .. ny - 1 :
                                  /\ TileAt(r, 0).y <= b
                                  /\ b < TileAt(r, 0).y + TileAt(r, 0).dy}) = 1
            /\ TileAt(0, 0).y = wnd * (ny - 1)
            /\ TileAt(0, 0).dy = NBITS - TileAt(0, 0).y

C14_Witness ==
    /\ pc = "spawn" /\ IsTiled
    /\ table.window.nx = 2 /\ table.window.ny = 3 /\ Len(scalars) = 3
    /\ Len(grid) = 6
    /\ grid[1] = [x |-> 0, dx |-> 1, y |-> 4, dy |-> 1]
    /\ grid[2] = [x |-> 1, dx |-> 2, y |-> 4, dy |-> 1]
    /\ grid[6] = [x |-> 1, dx |-> 2, y |-> 0, dy |-> 2]

\* C15: for a tiling with ny = floor(NBITS / width) + 1 the (bit offset, window
\* bits, carry bits) a worker passes to p1_tile_bgmw for table row r are those
\* multiply_sequential passes for row r at that width: (r * width, width,
\* width) below the top row, (width * floor(NBITS / width), NBITS mod width,
\* NBITS mod width + 1) for the top row; and y / width is below h.
C15_SameWindowsAsSequential ==
    (GridBuilt /\ table.window.ny = NBITS \div table.window.wnd + 1) =>
        LET wnd == table.window.wnd
            ny == table.window.ny
            calls == SeqCallsOfWidth(wnd)
        IN  /\ Len(calls) = ny
            /\ \A k \in DOMAIN grid :
                  LET y == grid[k].y
                      r == y \div wnd
                      bits == TileWindowBits(y, wnd)
                      c == calls[Len(calls) - r]
                  IN  /\ r < table.h
                      /\ <<c.row, c.bit0, c.wbits, c.cbits>> = <<r, y, bits[1], bits[2]>>
                      /\ r < ny - 1 => <<y, bits[1], bits[2]>> = <<r * wnd, wnd, wnd>>
                      /\ r = ny - 1 =>
                            <<y, bits[1], bits[2]>> =
                                <<wnd * (NBITS \div wnd), NBITS % wnd, (NBITS % wnd) + 1>>

C15_Witness ==
    /\ GridBuilt
    /\ table.window.wnd = 2 /\ table.window.ny = 3
    /\ \E w \in DOMAIN wpc :
          /\ wpc[w] = "tile"
          /\ grid[work[w] + 1].y = 4
          /\ TileWindowBits(grid[work[w] + 1].y, 2) = <<1, 2>>
    /\ \E w \in DOMAIN wpc :
          /\ wpc[w] = "tile"
          /\ grid[work[w] + 1].y = 2
          /\ TileWindowBits(grid[work[w] + 1].y, 2) = <<2, 2>>

\* The calls of the list that are entered: all of them, or those up to and
\* including the first that panics
RECURSIVE CallsEntered(_, _, _, _)
CallsEntered(t, scalars_, calls, buckets) ==
    IF calls = <<>> THEN <<>>
    ELSE LET c == Head(calls)
             row == TableRow(t, c.row)
         IN  IF ~row.ok \/ c.bit0 < 0 THEN <<>>
             ELSE LET tile == p1_tile_bgmw(row.val, scalars_, buckets, c.bit0, c.wbits,
                                           c.cbits)
                  IN  IF ~tile.ok THEN <<c>>
                      ELSE <<c>> \o CallsEntered(t, scalars_, Tail(calls), tile.val)

\* The p1_tile_bgmw calls one multiply_sequential call makes
SeqCallsMade(t, scalars_) ==
    LET w == get_sequential_window_size(t.window)
    IN  IF ~w.ok \/ w.val < 1 THEN <<>>
        ELSE CallsEntered(t, scalars_,
                          SeqCalls(w.val, NBITS % w.val, (NBITS % w.val) + 1, NBITS, t.h),
                          EmptyBuckets(w.val))

\* The rows h - 1, ..., 0 in that order, row q with bit offset q * width, bit
\* offset 0 reached exactly with row index 0
RowsTopDown(made, h, wnd) ==
    /\ Len(made) = h
    /\ \A k \in DOMAIN made :
          /\ made[k].row = h - k
          /\ made[k].q_idx = made[k].row
          /\ made[k].bit0 = made[k].row * wnd
          /\ (made[k].bit0 = 0) <=> (made[k].q_idx = 0)
          /\ (made[k].row = 0) <=> (k = Len(made))

\* C16 as stated, on the Sync tables new builds from one or more points:
\* multiply_sequential calls p1_tile_bgmw exactly h times, on rows
\* h - 1, ..., 0 in that order, row q with bit offset q * width; bit offset 0
\* comes with row 0, which is processed last.
C16_RowsTopDown ==
    (pc = "multiplied" /\ IsSync /\ Len(inPoints) >= 1) =>
        RowsTopDown(SeqCallsMade(table, scalars), table.h, table.window.wnd)

\* The sum over the array positions n (from 0) of (n + 1) * buckets[n]
RECURSIVE WeightedSum(_, _)
WeightedSum(buckets, k) ==
    IF k = 0 THEN Identity
    ELSE Add(Mul(buckets[k], k), WeightedSum(buckets, k - 1))

\* The loop of integrate_buckets with no bucket skipped
RECURSIVE IntegrateNoSkip(_, _, _, _)
IntegrateNoSkip(buckets, n, ret_, acc) ==
    IF n = 0 THEN ret_
    ELSE IntegrateNoSkip(buckets, n - 1, p1_dadd(ret_, p1_dadd(acc, buckets[n])),
                         p1_dadd(acc, buckets[n]))

\* C17: integrate_buckets over 2^wbits buckets writes the sum over the array
\* positions n of (n + 1) * buckets[n], and skipping the identity buckets
\* does not change what it writes.
C17_WeightedBucketSum ==
    kernel.op = "integrate" =>
        LET b == kernel.buckets
            top == Len(b)
        IN  /\ kernel.out = Ok(WeightedSum(b, top))
            /\ kernel.out = Ok(IntegrateNoSkip(b, top - 1, b[top], b[top]))

C17_Witness ==
    /\ kernel.op = "integrate"
    /\ kernel.buckets = <<2, 0, 5, 1>>
    /\ kernel.out = Ok((2 + 15 + 4) % GroupOrder)

\* C18: for n >= 2 point/scalar pairs p1_tile_bgmw leaves the buckets as a
\* loop without lookahead does that, for i = 0 .. n - 1 in order, decodes
\* point i with the Booth digit of scalar i.
C18_LookaheadIsTransparent ==
    (kernel.op = "tile" /\ Len(kernel.points) >= 2) =>
        kernel.out = Ok(TileNoLookahead(kernel.points, kernel.scalars, kernel.buckets,
                                        kernel.bit0, kernel.wbits, kernel.cbits))

C18_Witness ==
    /\ kernel.op = "tile"
    /\ Len(kernel.points) = 3
    /\ kernel.points = <<1, 3, 1>>
    /\ kernel.scalars = <<10, 1, 2 ^ NBITS - 1>>
    /\ kernel.bit0 = 2 /\ kernel.wbits = 2
    /\ kernel.out.ok
    /\ kernel.out.val # kernel.buckets

\* handler(record i) for the first n records of the stream
Decoded(st, n) == [i \in 1 .. n |-> handler("from_bytes", st[i])]

\* C19 as stated: on a stream holding n complete records
\* par_io_batch_reader returns the vector of length n whose element i is
\* handler(record i), whatever the interleaving of the read thread and the
\* decode workers.
C19_ReturnsInOrder ==
    (rpc = "workers" /\ Len(stream) >= rdN) ~>
        (rpc = "returned" /\ rdOut = RdOk(Decoded(stream, rdN)))

\* C20: when one point record of a serialized table, at whatever position, is
\* rejected by the validating decoder of the format read, read_from_reader
\* returns Err and no table.
C20_InvalidPointAborts ==
    (pc = "read" /\ damage = "badpoint" /\ readCompressed = compressed) =>
        readOut = ReadErr

\* The records of the file that the decoder of its format rejects
InvalidRecords ==
    LET total  == table.numpoints * table.h
        nbytes == RecordBytes(compressed)
    IN  {k \in 1 .. total :
            ~handler(HandlerName(compressed), PointRecord(file, k, total, nbytes)).ok}

\* A read that met its only invalid record last, after at least one valid one
C20_Witness ==
    /\ pc = "read" /\ damage = "badpoint" /\ readCompressed = compressed
    /\ table.numpoints * table.h >= 2
    /\ InvalidRecords = {table.numpoints * table.h}
    /\ readOut = ReadErr

\* The record size and the decoder of a load call
LoadRecordBytes ==
    IF kernel.op = "load_g1" THEN RecordBytes(kernel.compressed)
    ELSE G2RecordBytes(kernel.compressed)

LoadDecoder ==
    IF kernel.op = "load_g1" THEN HandlerName(kernel.compressed)
    ELSE G2HandlerName(kernel.compressed)

\* The file of a load call holds all its records and the decoder rejects one
LoadMeetsInvalidRecord ==
    /\ kernel.op \in {"load_g1", "load_g2"}
    /\ kernel.damage = "badpoint"
    /\ \E k \in 1 .. Len(kernel.saved) :
          ~handler(LoadDecoder, SetupRecord(kernel.reader, k, LoadRecordBytes)).ok

\* C21: load_g1 and load_g2 return Err to the caller, and do not panic, when
\* a point record of the trusted-setup file fails the decoder's validation.
C21_LoadReturnsErr ==
    LoadMeetsInvalidRecord => kernel.out = RdErr

\* Word j of the file, read as a little-endian u64
FileWord(j) == from_le_bytes(SubSeq(file, 8 * (j - 1) + 1, 8 * j))

\* The encoding of a point in the format the file was written in
Encoded(p) == IF compressed THEN to_bytes(p) ELSE serialize(p)

\* C22: write_to_writer emits little-endian u64 words, the tag (1 for a Sync
\* window, 3 for a Parallel one), the window words (width, or nx, ny, width),
\* numpoints and h, and then the numpoints * h points in row-major matrix
\* order, 48 bytes each when compressed and 96 when not; the file is
\* 8 * (3 + k) + numpoints * h * size bytes long, k being 1 or 3.
C22_FileLayout ==
    (pc = "written" /\ damage = "none") =>
        LET k    == IF IsSync THEN 1 ELSE 3
            size == IF compressed THEN 48 ELSE 96
            hdr  == 8 * (3 + k)
        IN  /\ Len(file) = hdr + table.numpoints * table.h * size
            /\ \A b \in 1 .. Len(file) : file[b] \in 0 .. 255
            /\ FileWord(1) = (IF IsSync THEN 1 ELSE 3)
            /\ IsSync => FileWord(2) = table.window.wnd
            /\ IsTiled => /\ FileWord(2) = table.window.nx
                          /\ FileWord(3) = table.window.ny
                          /\ FileWord(4) = table.window.wnd
            /\ FileWord(k + 2) = table.numpoints
            /\ FileWord(k + 3) = table.h
            /\ \A i \in 0 .. table.numpoints - 1, j \in 0 .. table.h - 1 :
                  LET at == hdr + (j * table.numpoints + i) * size
                  IN  SubSeq(file, at + 1, at + size) =
                          Encoded(Mul(inPoints[i + 1], (2 ^ table.window.wnd) ^ j))

\* A Parallel table of 3 points written uncompressed: 48 header bytes, and
\* the second point's second-row entry at record 3 + 2
C22_Witness ==
    /\ pc = "written" /\ damage = "none"
    /\ IsTiled /\ ~compressed
    /\ table.numpoints = 3 /\ table.h >= 2 /\ table.h # 3
    /\ inPoints[2] = 3
    /\ Len(file) = 48 + 3 * table.h * 96
    /\ file[48 + 4 * 96 + 48] = Mul(3, 2 ^ table.window.wnd)

\* C23: on a stream holding fewer than n complete records the call terminates
\* and returns Err carrying the read error; it never blocks forever waiting
\* for decoded results.  Stated for 3 or more cores, where decode workers
\* exist whatever the build.
C23_ShortStreamReturnsErr ==
    (rpc = "workers" /\ Len(stream) < rdN /\ rdCpus >= 3) ~>
        (rpc = "returned" /\ rdOut = RdErr)

\* C24: for every n >= 1 and every core count >= 1, core counts 1 and 2
\* included, the call on a stream of n complete records terminates with n
\* results.
C24_TerminatesOnAnyCoreCount ==
    (rpc = "workers" /\ rdN >= 1 /\ Len(stream) >= rdN) ~>
        (rpc = "returned" /\ rdOut.tag = "ok" /\ Len(rdOut.val) = rdN)

\* The rows multiply_sequential hands to p1_tile_bgmw on a Sync table t
SeqRowsIndexed(t) ==
    LET calls == SeqCalls(t.window.wnd, NBITS % t.window.wnd,
                          (NBITS % t.window.wnd) + 1, NBITS, t.h)
    IN  {calls[k].row : k \in DOMAIN calls}

\* C25: read_from_reader accepts a header only if its h is the row count its
\* window implies (the one new computes for that window), so that
\* multiply_sequential on an accepted table indexes no row at or beyond h and
\* none outside the points matrix.
C25_ReadChecksRowCount ==
    (pc = "read" /\ readOut.ok) =>
        LET t == readOut.val
        IN  /\ t.h = get_table_dimensions(t.window)[2]
            /\ t.window.tag = "Sync" =>
                  \A q \in SeqRowsIndexed(t) :
                      /\ q \in 0 .. t.h - 1
                      /\ (q + 1) * t.numpoints <= Len(t.points)

====
